---- MODULE Spec2Model ----
(***************************************************************************)
(* A model of senskrap's Premier scraper: PremierScraper.search / scrape   *)
(* (premier_shop.py), the fetch of BaseScraper (base_scraper.py) and the   *)
(* listing and item parsers (premier_parser.py, base_parser.py).           *)
(*                                                                         *)
(* Python values: None is the empty sequence <<>> and a present value v is *)
(* <<v>>; a str is a TLA+ string, or a sequence of one-character strings   *)
(* where the code looks inside it; a dict is a record.                     *)
(*                                                                         *)
(* The event loop is the interleaving of the actions: every action is one  *)
(* run of a coroutine from a suspension point to its next one.             *)
(***************************************************************************)
EXTENDS Integers, Sequences, FiniteSets, TLC

VARIABLES
    site,               \* the remote documents (the environment)
    faults,             \* responses other than a good document still to come
    session,            \* BaseScraper._session: "None", "open" or "closed"
    external_session,   \* BaseScraper._external_session
    internal_session,   \* BaseScraper._internal_session: "None" or "open"
    closed,             \* BaseScraper._closed
    sessions_created,   \* how many ClientSession objects the instance made
    call,               \* the arguments of the call of search / scrape
    pc,                 \* where the calling coroutine is suspended
    page1_response,     \* how the page-1 fetch was answered
    error,              \* the exception the call raised to its caller
    result,             \* the value the call returned
    payload,            \* search: payload
    all_links,          \* _scrape_urls: all_links
    actual_total_pages, \* _scrape_urls: actual_total_pages
    urls,               \* scrape: urls, the list search returned
    page_semaphore,     \* _scrape_urls: semaphore
    page_tasks,         \* _scrape_urls: tasks, one _fetch_page_links each
    item_semaphore,     \* _scrape_items_from_urls: semaphore
    item_tasks,         \* _scrape_items_from_urls: run_with_semaphore(task)
    requests,           \* every request handed to session.request, in order
    arrivals,           \* the tasks in the order their fetches were answered
    previous,           \* what the call before this one found and returned
    parse_input,        \* a text or document handed to a parser
    parse_output        \* what the parser returned for it

vars == <<site, faults, session, external_session, internal_session, closed,
          sessions_created, call, pc, page1_response, error, result, payload,
          all_links, actual_total_pages, urls, page_semaphore, page_tasks,
          item_semaphore, item_tasks, requests, arrivals, previous,
          parse_input, parse_output>>

----------------------------------------------------------------------------
(* Bounds of the model. *)

\* the largest page count the pager of a listing page shows
MaxTotal == 3
\* the longest price text of a ticket, in pieces
MaxPriceLen == 4
\* the largest number of thumbnail links on one listing page
MaxLinks == 1
\* how many responses of one call may be a failure or a blank body
MaxFaults == 2
\* the number of tasks of the fan-outs checked with concurrency 1, 5 and 10
LimiterTasks == 11

None == <<>>
Some(v) == <<v>>

RECURSIVE Sum(_, _)
Sum(f, S) == IF S = {} THEN 0
             ELSE LET x == CHOOSE y \in S : TRUE IN f[x] + Sum(f, S \ {x})

RECURSIVE Concat(_)
\* the concatenation of a sequence of sequences
Concat(ss) == IF ss = <<>> THEN <<>> ELSE Head(ss) \o Concat(Tail(ss))

Range(s) == {s[i] : i \in DOMAIN s}

Min(a, b) == IF a <= b THEN a ELSE b
Max(a, b) == IF a >= b THEN a ELSE b

----------------------------------------------------------------------------
(* Strings. *)

DigitChars == <<"0", "1", "2", "3", "4", "5", "6", "7", "8", "9">>

DigitValue(c) == (CHOOSE i \in DOMAIN DigitChars : DigitChars[i] = c) - 1

IsDigit(c) == c \in Range(DigitChars)

RECURSIVE Digits(_)
\* the decimal digits of a natural number, as the site prints it
Digits(n) == IF n < 10 THEN <<DigitChars[n + 1]>>
             ELSE Digits(n \div 10) \o <<DigitChars[(n % 10) + 1]>>

RECURSIVE DigitsValue(_)
DigitsValue(cs) == IF cs = <<>> THEN 0
                   ELSE 10 * DigitsValue(SubSeq(cs, 1, Len(cs) - 1))
                        + DigitValue(cs[Len(cs)])

\* int(text) of Python: [raised |-> TRUE] stands for ValueError
PyInt(cs) ==
    LET neg  == cs # <<>> /\ cs[1] = "-"
        body == IF cs # <<>> /\ cs[1] \in {"-", "+"} THEN Tail(cs) ELSE cs
    IN IF body # <<>> /\ \A i \in DOMAIN body : IsDigit(body[i])
       THEN [raised |-> FALSE,
             value |-> IF neg THEN 0 - DigitsValue(body) ELSE DigitsValue(body)]
       ELSE [raised |-> TRUE, value |-> 0]

Pad(n, width) ==
    LET s == ToString(n)
    IN IF width - Len(s) >= 3 THEN "000" \o s
       ELSE IF width - Len(s) = 2 THEN "00" \o s
       ELSE IF width - Len(s) = 1 THEN "0" \o s
       ELSE s

\* datetime.strftime("%Y%m%d")
Strftime(date) == Pad(date.year, 4) \o Pad(date.month, 2) \o Pad(date.day, 2)

RECURSIVE PyReplace(_, _, _)
\* str.replace(old, new): the occurrences of old from the left, none of them
\* overlapping another
PyReplace(s, old, new) ==
    IF Len(s) < Len(old) \/ old = <<>> THEN s
    ELSE IF SubSeq(s, 1, Len(old)) = old
    THEN new \o PyReplace(SubSeq(s, Len(old) + 1, Len(s)), old, new)
    ELSE <<Head(s)>> \o PyReplace(Tail(s), old, new)

RECURSIVE PyLStrip(_)
PyLStrip(s) == IF s # <<>> /\ Head(s) = " " THEN PyLStrip(Tail(s)) ELSE s

RECURSIVE PyRStrip(_)
PyRStrip(s) == IF s # <<>> /\ s[Len(s)] = " "
               THEN PyRStrip(SubSeq(s, 1, Len(s) - 1)) ELSE s

\* str.strip()
PyStrip(s) == PyRStrip(PyLStrip(s))

\* old in s
Contains(s, old) ==
    \E i \in 1..(Len(s) - Len(old) + 1) : SubSeq(s, i, i + Len(old) - 1) = old

\* range(a, b) of Python, as a sequence
PyRange(a, b) == [i \in 1..Max(b - a, 0) |-> a + i - 1]

----------------------------------------------------------------------------
(* Exceptions. *)

\* the direct base class of each exception class that occurs
BaseOf(cls) ==
    CASE cls = "ClientResponseError" -> "ClientError"
      [] cls = "ClientConnectionError" -> "ClientError"
      [] cls = "ClientError" -> "Exception"
      [] cls = "TimeoutError" -> "OSError"
      [] cls = "ConnectionError" -> "OSError"
      [] cls = "OSError" -> "Exception"
      [] cls = "TypeError" -> "Exception"
      [] cls = "ValueError" -> "Exception"
      [] OTHER -> "BaseException"

RECURSIVE IsSubclass(_, _)
IsSubclass(cls, of) ==
    \/ cls = of
    \/ cls # "BaseException" /\ IsSubclass(BaseOf(cls), of)

\* except (A, B, C): does the clause catch the exception
Catches(classes, exc) == \E c \in classes : IsSubclass(exc.type, c)

----------------------------------------------------------------------------
(* The remote site.  Its listing pages are numbered from 1 and a request    *)
(* without "p" is answered with page 1, as a request with p = 1 is.  The    *)
(* listing grows while it is read: a page asked for by number shows a page *)
(* count one above the count the request without "p" showed.               *)

BaseUrl == "https://twitcasting.tv"

\* TwitcastingScraper.__init__: urljoin(_BASE_URL, "shop.php")
ScraperUrl == BaseUrl \o "/" \o "shop.php"

\* the hrefs of the thumbnails of listing page q; neighbouring pages share an
\* item when a page holds two
Hrefs(q, n) == [j \in 1..n |-> "/shopitem/" \o ToString(q + j)]

BlankListing ==
    [blank |-> TRUE, empty_state |-> FALSE, thumbnails |-> <<>>, pager |-> None]

\* the pager of the pages asked for by number
LaterPager(pager) ==
    IF pager = None \/ \E i \in DOMAIN pager[1] : pager[1][i] \notin Range(DigitChars)
    THEN pager
    ELSE Some(Digits(DigitsValue(pager[1]) + 1))

ListingDoc(s, params) ==
    LET numbered == "p" \in DOMAIN params
        q == IF numbered THEN params.p ELSE 1
    IN [blank       |-> FALSE,
        empty_state |-> s.empty_state,
        thumbnails  |-> Hrefs(q, s.nlinks),
        pager       |-> IF numbered THEN LaterPager(s.pager) ELSE s.pager]

BlankItem == [blank |-> TRUE, title |-> None]

\* the detail page of an item; the page of item 3 has no title element
ItemDoc(s, url) ==
    [blank |-> FALSE,
     title |-> IF url = BaseUrl \o "/shopitem/3" THEN None
               ELSE Some("title of " \o url)]

\* the pager texts of the sites of the model: no pager, a page count, a word
PagerTexts(maxTotal) ==
    {None, Some(<<"N", "e", "x", "t">>)} \cup {Some(Digits(n)) : n \in 0..maxTotal}

----------------------------------------------------------------------------
(* BaseScraper.fetch *)

RawOutcomes == {"ok", "blank", "transport", "timeout", "status"}

\* an answer is a document, an empty body or a failure
ResponseClass(raw) == IF raw \in {"ok", "blank"} THEN raw ELSE "failed"

\* what session.request / raise_for_status raise inside fetch's try block
RawException(raw) ==
    CASE raw = "transport" -> [type |-> "ClientConnectionError", has_status |-> FALSE]
      [] raw = "timeout"   -> [type |-> "TimeoutError", has_status |-> FALSE]
      [] raw = "status"    -> [type |-> "ClientResponseError", has_status |-> TRUE]

\* the except clause of fetch: every Exception e leaves as a ConnectionError,
\* with or without a status; both messages end in "for URL: {url}", url being
\* the argument of fetch, not the url that was requested
FetchError(e, url) == [type |-> "ConnectionError", url |-> url]

\* fetch(url, **kwargs) on a response of kind raw: the text or the exception
Fetch(raw, url, doc, blankDoc) ==
    IF raw = "ok" THEN [raised |-> FALSE, html |-> doc, exc |-> None]
    ELSE IF raw = "blank" THEN [raised |-> FALSE, html |-> blankDoc, exc |-> None]
    ELSE [raised |-> TRUE, html |-> blankDoc,
          exc |-> Some(FetchError(RawException(raw), url))]

\* the request fetch hands to session.request: url or self.url; via is the
\* session the property self.session gave: 0 is the supplied one, k the k-th
\* session the instance made
Request(via, url, params) ==
    [via    |-> via,
     url    |-> IF url # None THEN url[1] ELSE ScraperUrl,
     params |-> params]

----------------------------------------------------------------------------
(* The parsers. *)

\* BaseParser.extract_url with attr = "href" and a base url
extract_url(href, base_url) ==
    IF href = None \/ href = Some("") THEN None ELSE Some(base_url \o href[1])

RECURSIVE extract_urls(_, _)
extract_urls(elements, base_url) ==
    IF elements = <<>> THEN <<>>
    ELSE LET url == extract_url(Some(Head(elements)), base_url)
         IN (IF url = None THEN <<>> ELSE <<url[1]>>)
            \o extract_urls(Tail(elements), base_url)

\* a page count taken one too high
get_total_pages_plus_one(html) ==
    IF html.pager = None THEN 1
    ELSE LET n == PyInt(html.pager[1])
         IN IF n.raised THEN 1 ELSE n.value + 1

\* ListParser._get_total_pages
get_total_pages(html) ==
    IF html.pager = None THEN 1
    ELSE LET n == PyInt(html.pager[1])
         IN IF n.raised THEN 1 ELSE n.value

\* soup.select_one(self._EMPTY_STATE_SELECTOR): the document holds the marker
\* of a query without results
HasEmptyState(html) == html.empty_state

\* a parse that does not look for the marker
ListParseNoMarker(html) ==
    <<extract_urls(html.thumbnails, BaseUrl), get_total_pages(html)>>

\* ListParser.parse
ListParse(html) ==
    IF HasEmptyState(html) THEN <<<<>>, 0>>
    ELSE <<extract_urls(html.thumbnails, BaseUrl), get_total_pages(html)>>

\* "(tax included)", in the pieces the price texts are made of: an opening
\* piece that nothing but the closing piece completes
TaxIncluded == <<"(tax ", "included)">>

\* the pieces of a price text: the two of the marker, an amount, a blank
PricePieces == {"(tax ", "included)", "500 yen", " "}

\* BaseParser.extract_text with strip = True; the element holds one text
extract_text(element) ==
    IF element = None THEN None ELSE Some(PyStrip(element[1]))

\* ItemParser.parse: ticket_price of the element the price selector finds
TicketPrice(element) ==
    LET ticket_price_raw == extract_text(element)
    IN IF ticket_price_raw = None \/ ticket_price_raw[1] = <<>> THEN None
       ELSE Some(PyStrip(PyReplace(ticket_price_raw[1], TaxIncluded, <<>>)))

\* a record that names the site in the place of the item
ItemParseBaseUrl(html, url) == [url |-> BaseUrl, title |-> html.title]

\* ItemParser.parse followed by PremierItem.to_dict
ItemParse(html, url) == [url |-> url, title |-> html.title]

----------------------------------------------------------------------------
(* PremierScraper.search: the criteria and the payload. *)

EmptyDict == [k \in {} |-> ""]

\* criteria = [c for c in (search, date, genre) if c is not None]
Criteria(c) == SelectSeq(<<c.search, c.date, c.genre>>, LAMBDA x : x # None)

\* a validation that only rejects the call without any criterion
ValidCriteriaAtLeastOne(c) == Len(Criteria(c)) >= 1

\* if len(criteria) != 1: raise ValueError
ValidCriteria(c) == Len(Criteria(c)) = 1

BuildPayload(c) ==
    IF c.search # None THEN [search |-> c.search[1]]
    ELSE IF c.date # None THEN [date |-> Strftime(c.date[1])]
    ELSE IF c.genre # None THEN [genre |-> ToString(c.genre[1])]
    ELSE EmptyDict

\* the exception classes the except clauses of premier_shop.py name
ExceptClause == {"ClientError", "TypeError", "TimeoutError"}

\* pages_to_scrape with max in the place of min
PagesToScrapeMax(total, max_pages) ==
    IF max_pages # None THEN Max(total, max_pages[1]) ELSE total

\* _scrape_urls: pages_to_scrape
PagesToScrape(total, max_pages) ==
    IF max_pages # None THEN Min(total, max_pages[1]) ELSE total

\* the page numbers with the upper end included
PageNumsInclusive(pages_to_scrape) == PyRange(1, pages_to_scrape + 1)

\* _scrape_urls: the page_num of each task, range(1, pages_to_scrape)
PageNums(pages_to_scrape) == PyRange(1, pages_to_scrape)

\* params left over from the request before, the dict of the first call
\* having been written to by its tasks
Page1ParamsLeftOver(pl) ==
    IF requests = <<>> THEN pl ELSE requests[Len(requests)].params[1]

\* _scrape_urls: fetch_html(params=payload), the page-1 fetch
Page1Params(pl) == pl

\* params that carry the page number alone
PageParamsOnlyP(pl, page_num) == [p |-> page_num]

\* _fetch_page_links: params = {**payload, "p": page_num}
PageParams(pl, page_num) == [p |-> page_num] @@ pl

RECURSIVE Unique(_)
Unique(s) == IF s = <<>> THEN <<>>
             ELSE LET front == Unique(SubSeq(s, 1, Len(s) - 1))
                  IN IF s[Len(s)] \in Range(front) THEN front
                     ELSE Append(front, s[Len(s)])

RECURSIVE Reverse(_)
Reverse(s) == IF s = <<>> THEN <<>> ELSE Append(Reverse(Tail(s)), Head(s))

\* a merge that takes the tasks' results last to first
MergeLinksBackwards(first, others) == first \o Concat(Reverse(others))

\* a merge that takes the tasks' results as their fetches were answered
MergeLinksByArrival(first, others) ==
    first \o Concat([k \in DOMAIN arrivals |-> others[arrivals[k]]])

\* a merge that keeps the first occurrence of each URL
MergeLinksUnique(first, others) == Unique(first \o Concat(others))

\* _scrape_urls: all_links.extend(links) for the links of each task, in the
\* order of the tasks, which is the order gather returns its results in
MergeLinks(first, others) == first \o Concat(others)

\* the records in the order the fetches of the tasks were answered
ItemResultsByArrival(tasks) ==
    Concat([k \in DOMAIN arrivals |-> tasks[arrivals[k]].ret])

\* _scrape_items_from_urls: [item for item in results if item is not None],
\* results being in the order of the tasks, whatever order they finished in
ItemResults(tasks) == Concat([i \in DOMAIN tasks |-> tasks[i].ret])

\* an item fan-out after every call that found links
RunsItemFanOutAfterSearch(op, links) == links # <<>>

\* scrape goes on into the item fan-out when there are URLs; search returns
RunsItemFanOut(op, links) == op = "scrape" /\ links # <<>>

----------------------------------------------------------------------------
(* asyncio.Semaphore: a counter and a first-in first-out queue of waiters. *)

\* a limiter made one slot too wide
SemaphoreOneMore(n) == [value |-> n + 1, waiters |-> <<>>]

\* Semaphore(concurrency)
Semaphore(n) == [value |-> n, waiters |-> <<>>]

\* a slot that is never given back
ReleaseNever(sem, raised) == sem

\* a slot that is given back only when the task returns
ReleaseOnReturn(sem, raised) ==
    IF raised THEN sem ELSE [sem EXCEPT !.value = @ + 1]

\* the exit from async with semaphore, by return or by exception
ReleaseOnExit(sem, raised) == [sem EXCEPT !.value = @ + 1]

\* a limiter that admits every task at once
NeverLocked(sem) == FALSE

\* async with semaphore: the task waits when no slot is free or others wait
Locked(sem) == sem.value = 0 \/ sem.waiters # <<>>

\* a task: its argument, where it is, what it returned or raised, and how its
\* fetch was answered
NewTask(key) == [key |-> key, st |-> "created", ret |-> None, exc |-> None,
                 response |-> "none"]

\* gather schedules the first run of every task before the calling coroutine
\* suspends, and the event loop runs what is scheduled before it polls the
\* network again: no answer arrives while a task has not yet run
AllStarted(tasks) == \A i \in DOMAIN tasks : tasks[i].st # "created"

\* the order of arrival is kept for the fan-outs of Spec, of up to MaxTotal
\* tasks; it is history, no state of the program
ArrivalsKept == Len(page_tasks) <= MaxTotal

\* for the item tasks it is kept when the listing had one page, of up to
\* MaxTotal items
ItemArrivalsKept == page_tasks = <<>> /\ Len(item_tasks) <= MaxTotal

Fetching(tasks) == {i \in DOMAIN tasks : tasks[i].st = "fetching"}

Finished(tasks) == {i \in DOMAIN tasks : tasks[i].st \in {"done", "raised"}}

RaisedTasks(tasks) == {i \in DOMAIN tasks : tasks[i].st = "raised"}

----------------------------------------------------------------------------
(* The state after construction. *)

Sites(maxTotal, maxLinks) ==
    [pager : PagerTexts(maxTotal), nlinks : 0..maxLinks, empty_state : BOOLEAN]

NoCall == [op |-> "none", search |-> None, date |-> None, genre |-> None,
           max_pages |-> None, concurrency |-> 0]

\* BaseScraper.__init__ and PremierScraper.__init__
InitProgram(sites, budget, externals) ==
    /\ site \in sites
    /\ faults = budget
    /\ external_session \in externals
    /\ session = (IF external_session THEN "open" ELSE "None")
    /\ internal_session = "None"
    /\ closed = FALSE
    /\ sessions_created = 0
    /\ call = NoCall
    /\ pc = "idle"
    /\ page1_response = "none"
    /\ error = None
    /\ result = <<>>
    /\ payload = EmptyDict
    /\ all_links = <<>>
    /\ actual_total_pages = 0
    /\ urls = <<>>
    /\ page_semaphore = Semaphore(0)
    /\ page_tasks = <<>>
    /\ item_semaphore = Semaphore(0)
    /\ item_tasks = <<>>
    /\ requests = <<>>
    /\ arrivals = <<>>
    /\ previous = None

\* an instance, and no text or document handed to a parser by itself
InitWith(sites, budget, externals) ==
    /\ InitProgram(sites, budget, externals)
    /\ parse_input = None
    /\ parse_output = None

\* an instance without a supplied session; SpecLifecycle has both kinds
Init == InitWith(Sites(MaxTotal, MaxLinks), MaxFaults, {FALSE})

----------------------------------------------------------------------------
(* Pieces of the coroutines that several actions share. *)

\* a scraper that takes no notice of the session it was given
HasSuppliedNever == FALSE

\* the property BaseScraper.session: self._session is not None
HasSupplied == session # "None"

\* the property BaseScraper.session: the internal session is made lazily
SessionGet ==
    IF HasSupplied \/ internal_session # "None"
    THEN UNCHANGED <<internal_session, sessions_created>>
    ELSE /\ internal_session' = "open"
         /\ sessions_created' = sessions_created + 1

\* the session the property returns
SessionUsed ==
    IF HasSupplied THEN 0
    ELSE IF internal_session # "None" THEN sessions_created
    ELSE sessions_created + 1

\* fetch up to its suspension in session.request
Issue(url, params) ==
    /\ SessionGet
    /\ requests' = Append(requests, Request(SessionUsed, url, params))

\* an exception leaves search / scrape
Raises(exc) ==
    /\ pc' = "raised"
    /\ error' = Some(exc)
    /\ UNCHANGED <<result, urls, item_semaphore, item_tasks>>

\* _scrape_urls returns links, so search returns them (l.136); scrape goes
\* on into _scrape_items_from_urls up to its gather (l.94, l.239-250)
SearchReturns(links) ==
    /\ urls' = links
    /\ UNCHANGED error
    /\ IF RunsItemFanOut(call.op, links)
       THEN /\ pc' = "gather_items"
            /\ item_semaphore' = Semaphore(call.concurrency)
            /\ item_tasks' = [i \in DOMAIN links |-> NewTask(links[i])]
            /\ UNCHANGED result
       ELSE /\ pc' = "returned"
            /\ result' = links
            /\ UNCHANGED <<item_semaphore, item_tasks>>

\* a response: a good document, or one of the faults that are left
Responds(raw) ==
    /\ raw = "ok" \/ faults > 0
    /\ faults' = IF raw = "ok" THEN faults ELSE faults - 1

----------------------------------------------------------------------------
(* The calling coroutine. *)

\* search(...) or scrape(...), up to the page-1 fetch of _scrape_urls
Call(op, s, d, g, mp, c) ==
    LET args == [op |-> op, search |-> s, date |-> d, genre |-> g,
                 max_pages |-> mp, concurrency |-> c]
    IN /\ pc = "idle"
       /\ call' = args
       /\ IF ~ValidCriteria(args)
          THEN /\ pc' = "raised"
               /\ error' = Some([type |-> "ValueError", url |-> None])
               /\ UNCHANGED <<payload, requests, internal_session,
                              sessions_created>>
          ELSE /\ payload' = BuildPayload(args)
               /\ Issue(None, Some(Page1Params(BuildPayload(args))))
               /\ pc' = "page1"
               /\ UNCHANGED error
       /\ UNCHANGED <<site, session, previous, parse_input, parse_output, arrivals, page1_response, faults, external_session, closed, result,
                      all_links, actual_total_pages, urls, page_semaphore,
                      page_tasks, item_semaphore, item_tasks>>

\* _scrape_urls from the answer to the page-1 fetch to its gather or return
Page1Response(raw) ==
    /\ pc = "page1"
    /\ Responds(raw)
    /\ page1_response' = ResponseClass(raw)
    /\ LET sent == requests[Len(requests)].params[1]
           r == Fetch(raw, None, ListingDoc(site, sent), BlankListing)
       IN IF r.raised
          THEN /\ IF Catches(ExceptClause, r.exc[1])
                  THEN SearchReturns(<<>>)
                  ELSE Raises(r.exc[1])
               /\ UNCHANGED <<all_links, actual_total_pages, page_semaphore,
                              page_tasks>>
          ELSE IF r.html.blank
          THEN /\ SearchReturns(<<>>)
               /\ UNCHANGED <<all_links, actual_total_pages, page_semaphore,
                              page_tasks>>
          ELSE LET parsed == ListParse(r.html)
                   pages_to_scrape == PagesToScrape(parsed[2], call.max_pages)
                   nums == PageNums(pages_to_scrape)
               IN /\ all_links' = parsed[1]
                  /\ actual_total_pages' = parsed[2]
                  /\ IF pages_to_scrape <= 1
                     THEN /\ SearchReturns(parsed[1])
                          /\ UNCHANGED <<page_semaphore, page_tasks>>
                     ELSE /\ page_semaphore' = Semaphore(call.concurrency)
                          /\ page_tasks' = [i \in DOMAIN nums |-> NewTask(nums[i])]
                          /\ pc' = "gather_pages"
                          /\ UNCHANGED <<error, result, urls, item_semaphore,
                                         item_tasks>>
    /\ UNCHANGED <<site, session, previous, parse_input, parse_output, arrivals, external_session, internal_session, closed,
                   sessions_created, call, payload, requests>>

\* gather of the page tasks returns: every task returned its links
GatherPagesReturn ==
    /\ pc = "gather_pages"
    /\ \A i \in DOMAIN page_tasks : page_tasks[i].st = "done"
    /\ LET merged == MergeLinks(all_links,
                                [i \in DOMAIN page_tasks |-> page_tasks[i].ret[1]])
       IN /\ all_links' = merged
          /\ SearchReturns(merged)
    /\ UNCHANGED <<site, session, previous, parse_input, parse_output, arrivals, page1_response, faults, external_session, internal_session, closed,
                   sessions_created, call, payload, actual_total_pages,
                   page_semaphore, page_tasks, requests>>

\* gather of the page tasks raises what a task raised
GatherPagesRaise ==
    /\ pc = "gather_pages"
    /\ \E i \in RaisedTasks(page_tasks) : Raises(page_tasks[i].exc[1])
    /\ UNCHANGED <<site, session, previous, parse_input, parse_output, arrivals, page1_response, faults, external_session, internal_session, closed,
                   sessions_created, call, payload, all_links,
                   actual_total_pages, page_semaphore, page_tasks, requests>>

\* gather of the item tasks returns: the results that are not None
GatherItemsReturn ==
    /\ pc = "gather_items"
    /\ \A i \in DOMAIN item_tasks : item_tasks[i].st = "done"
    /\ result' = ItemResults(item_tasks)
    /\ pc' = "returned"
    /\ UNCHANGED <<site, session, previous, parse_input, parse_output, arrivals, page1_response, faults, external_session, internal_session, closed,
                   sessions_created, call, error, payload, all_links,
                   actual_total_pages, urls, page_semaphore, page_tasks,
                   item_semaphore, item_tasks, requests>>

\* gather of the item tasks raises what a task raised
GatherItemsRaise ==
    /\ pc = "gather_items"
    /\ \E i \in RaisedTasks(item_tasks) :
          /\ pc' = "raised"
          /\ error' = item_tasks[i].exc
    /\ UNCHANGED <<site, session, previous, parse_input, parse_output, arrivals, page1_response, faults, external_session, internal_session, closed,
                   sessions_created, call, result, payload, all_links,
                   actual_total_pages, urls, page_semaphore, page_tasks,
                   item_semaphore, item_tasks, requests>>

\* the links page 1 gave to the call that has returned: all_links without
\* what the tasks' lists added to it
Page1LinksReturned ==
    SubSeq(all_links, 1,
           Len(all_links) - Sum([i \in DOMAIN page_tasks |->
                                    Len(page_tasks[i].ret[1])],
                                DOMAIN page_tasks))

\* search(...) called a second time on the same instance with the arguments
\* of the first call, once that has returned: the fields of the instance are
\* what the first call left, the locals of search and _scrape_urls are new;
\* what the first call found is kept in previous
CallAgain ==
    /\ pc = "returned"
    /\ call.op = "search"
    /\ previous = None
    /\ previous' = Some([links    |-> Page1LinksReturned,
                         total    |-> actual_total_pages,
                         page1    |-> page1_response,
                         result   |-> result,
                         arrivals |-> arrivals,
                         answers  |-> [i \in DOMAIN page_tasks |->
                                          page_tasks[i].response]])
    /\ payload' = BuildPayload(call)
    /\ Issue(None, Some(Page1Params(BuildPayload(call))))
    /\ pc' = "page1"
    /\ page1_response' = "none"
    /\ result' = <<>>
    /\ all_links' = <<>>
    /\ actual_total_pages' = 0
    /\ urls' = <<>>
    /\ page_semaphore' = Semaphore(0)
    /\ page_tasks' = <<>>
    /\ arrivals' = <<>>
    /\ UNCHANGED <<site, session, parse_input, parse_output, faults,
                   external_session, closed, call, error, item_semaphore,
                   item_tasks>>

\* fetch(), called by the caller itself in the place of search / scrape or
\* after it, up to its suspension in session.request
FetchStart ==
    /\ pc \in {"idle", "returned", "raised"}
    /\ Issue(None, None)
    /\ pc' = "fetch"
    /\ UNCHANGED <<site, session, previous, parse_input, parse_output, arrivals, page1_response, faults,
                   external_session, closed, call, error, result, payload,
                   all_links, actual_total_pages, urls, page_semaphore,
                   page_tasks, item_semaphore, item_tasks>>

\* the answer to the caller's own fetch: the text, or the ConnectionError
FetchResponse(raw) ==
    /\ pc = "fetch"
    /\ Responds(raw)
    /\ pc' = "fetched"
    /\ UNCHANGED <<site, session, previous, parse_input, parse_output, arrivals, page1_response, external_session,
                   internal_session, closed, sessions_created, call, error,
                   result, payload, all_links, actual_total_pages, urls,
                   page_semaphore, page_tasks, item_semaphore, item_tasks,
                   requests>>

\* a close() without the closed flag: it closes whatever internal session
\* there is, every time
CloseEveryTime ==
    /\ pc \in {"idle", "returned", "raised", "fetched"}
    /\ closed' = TRUE
    /\ internal_session' =
          IF ~external_session /\ internal_session # "None"
          THEN "None" ELSE internal_session
    /\ UNCHANGED <<site, session, previous, parse_input, parse_output, arrivals, page1_response, faults,
                   external_session, sessions_created, call, pc, error,
                   result, payload, all_links, actual_total_pages, urls,
                   page_semaphore, page_tasks, item_semaphore, item_tasks,
                   requests>>

\* close(), called by the caller or by __aexit__ on leaving the async with
\* block, after a return as after an exception; the caller has the control
\* before its call and after it, while tasks a gather left behind may still
\* run.  session.close() is taken in the same step.
Close ==
    /\ pc \in {"idle", "returned", "raised", "fetched"}
    /\ IF closed
       THEN UNCHANGED <<closed, internal_session>>
       ELSE /\ closed' = TRUE
            /\ internal_session' =
                  IF ~external_session /\ internal_session # "None"
                  THEN "None" ELSE internal_session
    /\ UNCHANGED <<site, session, previous, parse_input, parse_output, arrivals, page1_response, faults,
                   external_session, sessions_created, call, pc, error,
                   result, payload, all_links, actual_total_pages, urls,
                   page_semaphore, page_tasks, item_semaphore, item_tasks,
                   requests>>

----------------------------------------------------------------------------
(* The tasks of the page fan-out: _fetch_page_links. *)

\* the task's first run: async with semaphore, then fetch_html up to its
\* suspension; the event loop first runs the tasks in the order of creation
PageTaskStart(i) ==
    /\ i \in DOMAIN page_tasks
    /\ page_tasks[i].st = "created"
    /\ \A j \in 1..(i - 1) : page_tasks[j].st # "created"
    /\ IF Locked(page_semaphore)
       THEN /\ page_semaphore' = [page_semaphore EXCEPT !.waiters = Append(@, i)]
            /\ page_tasks' = [page_tasks EXCEPT ![i].st = "waiting"]
            /\ UNCHANGED <<requests, internal_session, sessions_created>>
       ELSE /\ page_semaphore' = [page_semaphore EXCEPT !.value = @ - 1]
            /\ page_tasks' = [page_tasks EXCEPT ![i].st = "fetching"]
            /\ Issue(None, Some(PageParams(payload, page_tasks[i].key)))
    /\ UNCHANGED <<site, session, previous, parse_input, parse_output, arrivals, page1_response, faults, external_session, closed, call, pc, error,
                   result, payload, all_links, actual_total_pages, urls,
                   item_semaphore, item_tasks>>

\* the first waiter gets the slot that was released and starts its fetch
PageTaskWake(i) ==
    /\ page_semaphore.waiters # <<>>
    /\ i = Head(page_semaphore.waiters)
    /\ page_semaphore.value > 0
    /\ page_semaphore' = [value   |-> page_semaphore.value - 1,
                          waiters |-> Tail(page_semaphore.waiters)]
    /\ page_tasks' = [page_tasks EXCEPT ![i].st = "fetching"]
    /\ Issue(None, Some(PageParams(payload, page_tasks[i].key)))
    /\ UNCHANGED <<site, session, previous, parse_input, parse_output, arrivals, page1_response, faults, external_session, closed, call, pc, error,
                   result, payload, all_links, actual_total_pages, urls,
                   item_semaphore, item_tasks>>

\* the answer to the task's fetch, the parse, the except clause, and the
\* exit from the async with block, which releases the slot on every path
PageTaskResponse(i, raw) ==
    /\ i \in DOMAIN page_tasks
    /\ page_tasks[i].st = "fetching"
    /\ AllStarted(page_tasks)
    /\ Responds(raw)
    /\ LET params == PageParams(payload, page_tasks[i].key)
           r == Fetch(raw, None, ListingDoc(site, params), BlankListing)
       IN page_tasks' = [page_tasks EXCEPT ![i] =
              IF r.raised
              THEN IF Catches(ExceptClause, r.exc[1])
                   THEN [@ EXCEPT !.st = "done", !.ret = Some(<<>>),
                                  !.response = ResponseClass(raw)]
                   ELSE [@ EXCEPT !.st = "raised", !.exc = r.exc,
                                  !.response = ResponseClass(raw)]
              ELSE [@ EXCEPT !.st = "done", !.ret = Some(ListParse(r.html)[1]),
                             !.response = ResponseClass(raw)]]
    /\ page_semaphore' = ReleaseOnExit(page_semaphore,
                                       page_tasks'[i].st = "raised")
    /\ arrivals' = IF ArrivalsKept THEN Append(arrivals, i) ELSE arrivals
    /\ UNCHANGED <<site, session, previous, parse_input, parse_output, page1_response, external_session, internal_session, closed,
                   sessions_created, call, pc, error, result, payload,
                   all_links, actual_total_pages, urls, item_semaphore,
                   item_tasks, requests>>

----------------------------------------------------------------------------
(* The tasks of the item fan-out: run_with_semaphore(get_item_info(url)).  *)
(* The coroutine get_item_info(url) is made with the list of tasks and     *)
(* runs only when run_with_semaphore awaits it inside the async with.      *)

ItemTaskStart(i) ==
    /\ i \in DOMAIN item_tasks
    /\ item_tasks[i].st = "created"
    /\ \A j \in 1..(i - 1) : item_tasks[j].st # "created"
    /\ IF Locked(item_semaphore)
       THEN /\ item_semaphore' = [item_semaphore EXCEPT !.waiters = Append(@, i)]
            /\ item_tasks' = [item_tasks EXCEPT ![i].st = "waiting"]
            /\ UNCHANGED <<requests, internal_session, sessions_created>>
       ELSE /\ item_semaphore' = [item_semaphore EXCEPT !.value = @ - 1]
            /\ item_tasks' = [item_tasks EXCEPT ![i].st = "fetching"]
            /\ Issue(Some(item_tasks[i].key), None)
    /\ UNCHANGED <<site, session, previous, parse_input, parse_output, arrivals, page1_response, faults, external_session, closed, call, pc, error,
                   result, payload, all_links, actual_total_pages, urls,
                   page_semaphore, page_tasks>>

ItemTaskWake(i) ==
    /\ item_semaphore.waiters # <<>>
    /\ i = Head(item_semaphore.waiters)
    /\ item_semaphore.value > 0
    /\ item_semaphore' = [value   |-> item_semaphore.value - 1,
                          waiters |-> Tail(item_semaphore.waiters)]
    /\ item_tasks' = [item_tasks EXCEPT ![i].st = "fetching"]
    /\ Issue(Some(item_tasks[i].key), None)
    /\ UNCHANGED <<site, session, previous, parse_input, parse_output, arrivals, page1_response, faults, external_session, closed, call, pc, error,
                   result, payload, all_links, actual_total_pages, urls,
                   page_semaphore, page_tasks>>

\* _get_premier_item from the answer to its fetch, get_item_info's to_dict,
\* and the exit from run_with_semaphore's async with block
ItemTaskResponse(i, raw) ==
    /\ i \in DOMAIN item_tasks
    /\ item_tasks[i].st = "fetching"
    /\ AllStarted(item_tasks)
    /\ Responds(raw)
    /\ LET url == item_tasks[i].key
           r == Fetch(raw, Some(url), ItemDoc(site, url), BlankItem)
       IN item_tasks' = [item_tasks EXCEPT ![i] =
              IF r.raised
              THEN IF Catches(ExceptClause, r.exc[1])
                   THEN [@ EXCEPT !.st = "done", !.ret = None,
                                  !.response = ResponseClass(raw)]
                   ELSE [@ EXCEPT !.st = "raised", !.exc = r.exc,
                                  !.response = ResponseClass(raw)]
              ELSE IF r.html.blank
              THEN [@ EXCEPT !.st = "done", !.ret = None,
                             !.response = ResponseClass(raw)]
              ELSE [@ EXCEPT !.st = "done", !.ret = Some(ItemParse(r.html, url)),
                             !.response = ResponseClass(raw)]]
    /\ item_semaphore' = ReleaseOnExit(item_semaphore,
                                       item_tasks'[i].st = "raised")
    /\ arrivals' = IF ItemArrivalsKept THEN Append(arrivals, i) ELSE arrivals
    /\ UNCHANGED <<site, session, previous, parse_input, parse_output, page1_response, external_session, internal_session, closed,
                   sessions_created, call, pc, error, result, payload,
                   all_links, actual_total_pages, urls, page_semaphore,
                   page_tasks, requests>>

----------------------------------------------------------------------------
(* The specification of one call of search or scrape. *)

Ops == {"search", "scrape"}

Terms == {None, Some("live")}

Dates == {None, Some([year |-> 2025, month |-> 1, day |-> 5])}

\* PremierGenre.JAZZ_FUSION
Genres == {None, Some(107)}

\* max_pages: absent, below, at and above the page count of the site
MaxPagesArgs == {None} \cup {Some(n) : n \in 1..MaxTotal}

Concurrencies == {1, 2}

DoCall ==
    \E op \in Ops, s \in Terms, d \in Dates, g \in Genres,
       mp \in MaxPagesArgs, c \in Concurrencies : Call(op, s, d, g, mp, c)

DoPage1Response == \E raw \in RawOutcomes : Page1Response(raw)

DoPageTaskStart == \E i \in DOMAIN page_tasks : PageTaskStart(i)

DoPageTaskWake == \E i \in DOMAIN page_tasks : PageTaskWake(i)

DoPageTaskResponse ==
    \E i \in DOMAIN page_tasks, raw \in RawOutcomes : PageTaskResponse(i, raw)

DoItemTaskStart == \E i \in DOMAIN item_tasks : ItemTaskStart(i)

DoItemTaskWake == \E i \in DOMAIN item_tasks : ItemTaskWake(i)

DoItemTaskResponse ==
    \E i \in DOMAIN item_tasks, raw \in RawOutcomes : ItemTaskResponse(i, raw)

PageTasks ==
    \/ DoPageTaskStart
    \/ DoPageTaskWake
    \/ DoPageTaskResponse
    \/ GatherPagesReturn
    \/ GatherPagesRaise

ItemTasks ==
    \/ DoItemTaskStart
    \/ DoItemTaskWake
    \/ DoItemTaskResponse
    \/ GatherItemsReturn
    \/ GatherItemsRaise

Tasks == PageTasks \/ ItemTasks

Next == DoCall \/ DoPage1Response \/ Tasks

Spec == Init /\ [][Next]_vars

----------------------------------------------------------------------------
(* The fan-outs with as many tasks as it takes to fill a limiter of 10:    *)
(* a site of LimiterTasks + 1 listing pages of one item each, and a site   *)
(* of a single listing page of LimiterTasks items.                         *)

LimiterSites ==
    {[pager |-> Some(Digits(LimiterTasks + 1)), nlinks |-> 1,
      empty_state |-> FALSE],
     [pager |-> None, nlinks |-> LimiterTasks, empty_state |-> FALSE]}

LimiterConcurrencies == {1, 5, 10}

\* one response of these fan-outs may be a failure or a blank body; the
\* fan-outs of Spec take more of them
LimiterFaults == Min(MaxFaults, 1)

InitLimiter == InitWith(LimiterSites, LimiterFaults, {FALSE})

\* search over the site of many pages, scrape over the site of many items
DoCallLimiter ==
    \E c \in LimiterConcurrencies :
        Call(IF site.nlinks = 1 THEN "search" ELSE "scrape",
             None, None, Some(107), None, c)

NextLimiter == DoCallLimiter \/ DoPage1Response \/ Tasks

SpecLimiter == InitLimiter /\ [][NextLimiter]_vars

----------------------------------------------------------------------------
(* The life of an instance: a call of search or scrape, a fetch by the      *)
(* caller, and close before them, between them and after them, with or     *)
(* without a supplied session.                                              *)

\* sites of one item a page: a single page, and as many pages as the bound
LifecycleSites ==
    {[pager |-> pg, nlinks |-> 1, empty_state |-> FALSE] :
        pg \in {None, Some(Digits(MaxTotal))}}

InitLifecycle == InitWith(LifecycleSites, Min(MaxFaults, 1), BOOLEAN)

DoCallLifecycle ==
    \E op \in Ops, c \in Concurrencies :
        Call(op, Some("live"), None, None, None, c)

DoFetchResponse == \E raw \in RawOutcomes : FetchResponse(raw)

NextLifecycle ==
    \/ DoCallLifecycle
    \/ DoPage1Response
    \/ Tasks
    \/ FetchStart
    \/ DoFetchResponse
    \/ Close

SpecLifecycle == InitLifecycle /\ [][NextLifecycle]_vars

----------------------------------------------------------------------------
(* The item fan-out by itself: scrape over a listing of one page that shows *)
(* several items, whose fetches are answered in any order.                  *)

ItemSites ==
    {[pager |-> None, nlinks |-> n, empty_state |-> FALSE] : n \in 2..MaxTotal}

InitItems == InitWith(ItemSites, MaxFaults, {FALSE})

DoCallItems ==
    \E c \in Concurrencies : Call("scrape", Some("live"), None, None, None, c)

NextItems == DoCallItems \/ DoPage1Response \/ ItemTasks

SpecItems == InitItems /\ [][NextItems]_vars

----------------------------------------------------------------------------
(* Calls whose concurrency argument is 0, next to calls with slots.         *)

ZeroConcurrencies == {0, 1, 2}

InitZero == InitWith(LifecycleSites, Min(MaxFaults, 1), {FALSE})

DoCallZero ==
    \E op \in Ops, c \in ZeroConcurrencies :
        Call(op, Some("live"), None, None, None, c)

NextZero == DoCallZero \/ DoPage1Response \/ Tasks

SpecZero == InitZero /\ [][NextZero]_vars

----------------------------------------------------------------------------
(* Calls whose max_pages argument is 0 or negative, next to calls without   *)
(* max_pages and with max_pages 1.                                          *)

LowMaxPagesArgs == {None, Some(0 - 1), Some(0), Some(1)}

\* sites of one page and of as many pages as the bound
MaxPagesSites ==
    {[pager |-> pg, nlinks |-> n, empty_state |-> FALSE] :
        pg \in {None, Some(Digits(MaxTotal))}, n \in 1..MaxLinks}

InitMaxPages == InitWith(MaxPagesSites, Min(MaxFaults, 1), {FALSE})

DoCallMaxPages ==
    \E op \in Ops, mp \in LowMaxPagesArgs, c \in Concurrencies :
        Call(op, Some("live"), None, None, mp, c)

NextMaxPages == DoCallMaxPages \/ DoPage1Response \/ Tasks

SpecMaxPages == InitMaxPages /\ [][NextMaxPages]_vars

----------------------------------------------------------------------------
(* Two calls of search in a row on one instance, with the same arguments    *)
(* and against the same site.                                               *)

TwiceSites ==
    {[pager |-> pg, nlinks |-> n, empty_state |-> FALSE] :
        pg \in {None, Some(Digits(MaxTotal))}, n \in 1..MaxLinks}

InitTwice == InitWith(TwiceSites, Min(MaxFaults, 1), {FALSE})

DoCallTwice ==
    \E mp \in {None, Some(1)}, c \in Concurrencies :
        Call("search", Some("live"), None, None, mp, c)

NextTwice == DoCallTwice \/ DoPage1Response \/ PageTasks \/ CallAgain

SpecTwice == InitTwice /\ [][NextTwice]_vars

----------------------------------------------------------------------------
(* A call under a fair event loop and a network that answers: a task that  *)
(* can run is run, a fetch that was started is answered, by a document, a  *)
(* failure or a timeout, and a gather whose tasks are through goes on.     *)

InitFair == InitWith(LifecycleSites, Min(MaxFaults, 1), {FALSE})

NextFair == DoCallLifecycle \/ DoPage1Response \/ Tasks

Fairness ==
    /\ WF_vars(DoPage1Response)
    /\ WF_vars(DoPageTaskStart)
    /\ WF_vars(DoPageTaskWake)
    /\ WF_vars(DoPageTaskResponse)
    /\ WF_vars(GatherPagesReturn)
    /\ WF_vars(GatherPagesRaise)
    /\ WF_vars(DoItemTaskStart)
    /\ WF_vars(DoItemTaskWake)
    /\ WF_vars(DoItemTaskResponse)
    /\ WF_vars(GatherItemsReturn)
    /\ WF_vars(GatherItemsRaise)

SpecFair == InitFair /\ [][NextFair]_vars /\ Fairness

----------------------------------------------------------------------------
(* The parsers by themselves: a price element or a listing document is     *)
(* handed to the parser and the parser returns.                             *)

RECURSIVE SeqsUpTo(_, _)
\* the sequences over S of length n or less
SeqsUpTo(S, n) ==
    IF n = 0 THEN {<<>>}
    ELSE LET shorter == SeqsUpTo(S, n - 1)
         IN shorter \cup {Append(s, x) : s \in shorter, x \in S}

\* the price element is missing, or it holds a text
PriceElements == {None} \cup {Some(s) : s \in SeqsUpTo(PricePieces, MaxPriceLen)}

\* the texts of the last link of the pager: numbers with and without sign,
\* a word, nothing
ParserPagerTexts ==
    PagerTexts(MaxTotal)
    \cup {Some(<<>>)}
    \cup {Some(<<sign>> \o Digits(n)) : sign \in {"-", "+"}, n \in 0..MaxTotal}

ListingDocs ==
    [blank : {FALSE}, empty_state : BOOLEAN,
     thumbnails : {Hrefs(1, n) : n \in 0..MaxLinks}, pager : ParserPagerTexts]

ParseInputs ==
    [parser : {"price"}, element : PriceElements]
    \cup [parser : {"listing"}, html : ListingDocs]

InitParsers ==
    /\ InitProgram({[pager |-> None, nlinks |-> 0, empty_state |-> FALSE]},
                   0, {FALSE})
    /\ parse_input \in ParseInputs
    /\ parse_output = None

\* ItemParser.parse, the price of one ticket
ParsePrice ==
    /\ parse_output = None
    /\ parse_input.parser = "price"
    /\ parse_output' = Some(TicketPrice(parse_input.element))
    /\ UNCHANGED <<site, session, previous, parse_input, arrivals,
                   page1_response, faults, external_session,
                   internal_session, closed, sessions_created, call, pc,
                   error, result, payload, all_links, actual_total_pages,
                   urls, page_semaphore, page_tasks, item_semaphore,
                   item_tasks, requests>>

\* ListParser.parse
ParseListing ==
    /\ parse_output = None
    /\ parse_input.parser = "listing"
    /\ parse_output' = Some(ListParse(parse_input.html))
    /\ UNCHANGED <<site, session, previous, parse_input, arrivals,
                   page1_response, faults, external_session,
                   internal_session, closed, sessions_created, call, pc,
                   error, result, payload, all_links, actual_total_pages,
                   urls, page_semaphore, page_tasks, item_semaphore,
                   item_tasks, requests>>

NextParsers == ParsePrice \/ ParseListing

SpecParsers == InitParsers /\ [][NextParsers]_vars

----------------------------------------------------------------------------
(* What the claims speak of. *)

NumCriteria ==
    Cardinality({k \in {"search", "date", "genre"} : call[k] # None})

IsPageRequest(r) == r.params # None /\ "p" \in DOMAIN r.params[1]

IsItemRequest(r) == r.params = None /\ r.url # ScraperUrl

\* the fetches of listing pages issued after the page-1 fetch
PageRequests == {k \in DOMAIN requests : IsPageRequest(requests[k])}

\* the fetches of item detail pages
ItemRequests == {k \in DOMAIN requests : IsItemRequest(requests[k])}

Answered(tasks) == {i \in DOMAIN tasks : tasks[i].response # "none"}

FailedFetches(tasks) == {i \in DOMAIN tasks : tasks[i].response = "failed"}

AllFinished(tasks) == tasks # <<>> /\ Finished(tasks) = DOMAIN tasks

\* fetches started and not yet answered
PageFetchesInFlight ==
    Cardinality(PageRequests) - Cardinality(Answered(page_tasks))

ItemFetchesInFlight ==
    Cardinality(ItemRequests) - Cardinality(Answered(item_tasks))

\* the links the site shows on its listing page q
SiteLinks(q) ==
    IF site.empty_state THEN <<>>
    ELSE [j \in 1..site.nlinks |-> BaseUrl \o "/shopitem/" \o ToString(q + j)]

\* the effective page count of the call, once page 1 has reported a total
EffectiveCount ==
    IF call.max_pages # None /\ call.max_pages[1] < actual_total_pages
    THEN call.max_pages[1]
    ELSE actual_total_pages

CallEnded == pc \in {"returned", "raised"}

\* search has returned the list its page fan-out merged
SearchMerged == call.op = "search" /\ pc = "returned" /\ page_tasks # <<>>

\* the links the task of page_tasks[i] returned
TaskLinks(i) == page_tasks[i].ret[1]

\* the fetch of task j was answered before the fetch of task i
ArrivedBefore(j, i) ==
    \E a, b \in DOMAIN arrivals : a < b /\ arrivals[a] = j /\ arrivals[b] = i

\* where the links of task i begin in the merged list, were the lists of the
\* tasks laid out after page 1's in the order of the tasks
BlockStart(i) ==
    Len(SiteLinks(1)) + Sum([k \in DOMAIN page_tasks |-> Len(TaskLinks(k))],
                            1..(i - 1)) + 1

Block(i) == SubSeq(result, BlockStart(i), BlockStart(i) + Len(TaskLinks(i)) - 1)

----------------------------------------------------------------------------
(* The claims. *)

\* C1: a call of search or scrape with zero, two or three criteria has
\* raised ValueError, and no fetch has been issued.
C1_ValidationBeforeFetch ==
    (pc # "idle" /\ NumCriteria # 1) =>
        /\ pc = "raised"
        /\ error # None
        /\ error[1].type = "ValueError"
        /\ requests = <<>>

C1_Witness ==
    /\ pc = "raised"
    /\ call.op = "scrape"
    /\ NumCriteria = 2
    /\ error[1].type = "ValueError"

\* C2: when exactly one page fetch of the fan-out of search has failed and
\* every page task has finished, the call returns normally and its list is
\* made of page 1's links and the links of the pages that did not fail.
C2_OneFailingPageIsSkipped ==
    (/\ call.op = "search"
     /\ CallEnded
     /\ AllFinished(page_tasks)
     /\ Len(page_tasks) >= 2
     /\ Cardinality(FailedFetches(page_tasks)) = 1)
    => /\ pc = "returned"
       /\ Range(SiteLinks(1)) \subseteq Range(result)
       /\ \A i \in DOMAIN page_tasks :
             page_tasks[i].response = "ok" =>
                 Range(SiteLinks(page_tasks[i].key)) \subseteq Range(result)
       /\ Len(result) =
             Len(SiteLinks(1))
             + Sum([i \in DOMAIN page_tasks |->
                       IF page_tasks[i].response = "ok"
                       THEN Len(SiteLinks(page_tasks[i].key)) ELSE 0],
                   DOMAIN page_tasks)

\* C3: when exactly one item fetch of the fan-out of scrape has failed and
\* every item task has finished, no exception reaches the caller and the
\* sequence returned holds the records of the other URLs, in fewer entries
\* than there are URLs.
C3_OneFailingItemIsDropped ==
    (/\ call.op = "scrape"
     /\ CallEnded
     /\ AllFinished(item_tasks)
     /\ Len(item_tasks) >= 2
     /\ Cardinality(FailedFetches(item_tasks)) = 1
     /\ \A i \in DOMAIN item_tasks :
           item_tasks[i].response \in {"ok", "failed"})
    => /\ pc = "returned"
       /\ error = None
       /\ Len(result) = Len(urls) - 1
       /\ result = Concat([i \in DOMAIN item_tasks |->
                             IF item_tasks[i].response = "ok"
                             THEN <<ItemParse(ItemDoc(site, urls[i]), urls[i])>>
                             ELSE <<>>])

\* C4: a call with exactly one criterion raises nothing to its caller,
\* whichever fetches fail.
C4_OnlyValidationErrorCrosses ==
    NumCriteria = 1 => pc # "raised"

\* C5: when the page-1 fetch has failed, the call has returned an empty
\* list, has raised nothing and has issued no other fetch.
C5_Page1FailureIsEmptyResult ==
    page1_response = "failed" =>
        /\ pc = "returned"
        /\ error = None
        /\ result = <<>>
        /\ Len(requests) = 1

\* C6: with concurrency 1, 5 or 10, the page fetches in flight during the
\* page fan-out of a search never number more than concurrency.
C6_PageFetchesWithinLimit ==
    /\ PageFetchesInFlight <= call.concurrency
    /\ PageFetchesInFlight = Cardinality(Fetching(page_tasks))

C6_Witness ==
    /\ call.op = "search"
    /\ call.concurrency = 10
    /\ PageFetchesInFlight = 10
    /\ \E i \in DOMAIN page_tasks : page_tasks[i].st = "waiting"

\* C7: with concurrency 1, 5 or 10, the item fetches in flight during the
\* item fan-out of a scrape never number more than concurrency, every one of
\* them holds a slot of the limiter, and all the tasks exist before the
\* first of them is admitted.
C7_ItemFetchesWithinLimit ==
    item_tasks # <<>> =>
        /\ ItemFetchesInFlight <= call.concurrency
        /\ item_semaphore.value = call.concurrency - ItemFetchesInFlight
        /\ ItemRequests # {} => Len(item_tasks) = Len(urls)

C7_Witness ==
    /\ pc = "gather_items"
    /\ call.concurrency = 5
    /\ ItemFetchesInFlight = 5
    /\ item_semaphore.value = 0
    /\ \E i \in DOMAIN item_tasks : item_tasks[i].st = "waiting"
    /\ \E i \in DOMAIN item_tasks : item_tasks[i].st = "done"

\* C8: when max_pages is at least 1 and less than the total page 1 reports,
\* never more than max_pages - 1 page fetches follow the page-1 fetch, and
\* exactly that many once the page fan-out is through.
C8_MaxPagesCapsThePageFetches ==
    (/\ call.max_pages # None
     /\ call.max_pages[1] >= 1
     /\ call.max_pages[1] < actual_total_pages)
    => /\ Cardinality(PageRequests) <= call.max_pages[1] - 1
       /\ (pc \in {"returned", "gather_items"} \/ AllFinished(page_tasks))
             => Cardinality(PageRequests) = call.max_pages[1] - 1

C8_Witness ==
    /\ pc = "returned"
    /\ call.op = "search"
    /\ call.max_pages = Some(2)
    /\ actual_total_pages = 3
    /\ Cardinality(PageRequests) = 1

\* C9: when page 1 reports a total of exactly 1 page, no fetch of a listing
\* page follows the page-1 fetch and search returns exactly page 1's links.
C9_SinglePageNoFanOut ==
    (page1_response = "ok" /\ actual_total_pages = 1) =>
        /\ PageRequests = {}
        /\ page_tasks = <<>>
        /\ urls = SiteLinks(1)
        /\ call.op = "search" =>
              /\ pc = "returned"
              /\ result = SiteLinks(1)
              /\ Len(requests) = 1

C9_Witness ==
    /\ pc = "returned"
    /\ call.op = "search"
    /\ call.max_pages = Some(3)
    /\ actual_total_pages = 1
    /\ result # <<>>
    /\ result = SiteLinks(1)

\* C10: with an effective count E above 1, the page fan-out issues one fetch
\* for each page number in 2..E, the page number being the p parameter, and
\* none with the number 1 or a number above E.
C10_PageNumbersTwoToE ==
    (page1_response = "ok" /\ EffectiveCount > 1) =>
        /\ \A k \in PageRequests : requests[k].params[1].p \in 2..EffectiveCount
        /\ \A k, l \in PageRequests :
              requests[k].params[1].p = requests[l].params[1].p => k = l
        /\ AllFinished(page_tasks) =>
              {requests[k].params[1].p : k \in PageRequests} = 2..EffectiveCount

\* C11 (as stated): the list search returns holds, after page 1's links, the
\* link lists of the later pages in the order in which their fetches were
\* answered.
C11_ArrivalOrder ==
    SearchMerged =>
        result = SiteLinks(1)
                 \o Concat([k \in DOMAIN arrivals |-> TaskLinks(arrivals[k])])

\* C11 (amended): the list search returns holds, after page 1's links, the
\* link lists of the later pages in the order of their tasks, that is by
\* ascending page parameter, in whatever order the fetches were answered.
C11_TaskOrder ==
    SearchMerged =>
        \A i, j \in DOMAIN page_tasks :
            i < j => /\ Block(i) = TaskLinks(i)
                     /\ Block(j) = TaskLinks(j)
                     /\ BlockStart(i) + Len(TaskLinks(i)) <= BlockStart(j)
                     /\ page_tasks[i].key < page_tasks[j].key

C11_Witness ==
    /\ SearchMerged
    /\ ArrivedBefore(2, 1)
    /\ TaskLinks(1) # <<>>
    /\ TaskLinks(2) # <<>>
    /\ TaskLinks(1) # TaskLinks(2)
    /\ Block(1) = TaskLinks(1)
    /\ BlockStart(1) < BlockStart(2)

ItemRequestLog == SelectSeq(requests, IsItemRequest)

\* C13: search issues no item fetch; in scrape every item fetch comes after
\* the page fan-out has returned the merged list, when every page fetch has
\* been issued and answered, and the item fetches are for the entries of
\* that list, one for each entry.
C13_ItemsAfterTheMergedList ==
    /\ call.op = "search" => (ItemRequests = {} /\ item_tasks = <<>>)
    /\ ItemRequests # {} =>
          /\ call.op = "scrape"
          /\ pc \in {"gather_items", "returned", "raised"}
          /\ \A i \in DOMAIN page_tasks : page_tasks[i].st = "done"
          /\ \A k \in ItemRequests :
                \A l \in DOMAIN requests \ ItemRequests : l < k
          /\ Len(ItemRequestLog) <= Len(urls)
          /\ \A m \in DOMAIN ItemRequestLog : ItemRequestLog[m].url = urls[m]
          /\ AllFinished(item_tasks) => Len(ItemRequestLog) = Len(urls)

C13_Witness ==
    /\ call.op = "scrape"
    /\ pc = "returned"
    /\ Len(page_tasks) >= 2
    /\ Len(urls) >= 3
    /\ Len(ItemRequestLog) = Len(urls)
    /\ Len(result) = Len(urls)

\* the page count the call goes by when the first page shows the count n
EffectiveOf(n) ==
    IF call.max_pages # None THEN Min(n, call.max_pages[1]) ELSE n

\* the page count a page asked for by number shows
LaterTotal(i) ==
    get_total_pages(ListingDoc(site, PageParams(payload, page_tasks[i].key)))

\* C14: the page-1 fetch is the first request and is answered before any
\* other page fetch is issued; the number of further page fetches follows
\* from the count page 1 showed and from max_pages alone, whatever count the
\* later pages show.
C14_Page1IsAuthoritative ==
    /\ requests # <<>> => ~IsPageRequest(requests[1])
    /\ PageRequests # {} => (page1_response = "ok" /\ pc # "page1")
    /\ \A n \in 0..MaxTotal :
          (/\ page1_response = "ok"
           /\ ~site.empty_state
           /\ site.pager = Some(Digits(n)))
          => /\ Cardinality(PageRequests) <= Max(EffectiveOf(n) - 1, 0)
             /\ (pc \in {"returned", "gather_items"} \/ AllFinished(page_tasks))
                   => Cardinality(PageRequests) = Max(EffectiveOf(n) - 1, 0)

C14_Witness ==
    /\ call.op = "search"
    /\ pc = "returned"
    /\ call.max_pages = None
    /\ site.pager = Some(Digits(2))
    /\ Len(page_tasks) = 1
    /\ page_tasks[1].response = "ok"
    /\ LaterTotal(1) = 3
    /\ actual_total_pages = 2
    /\ Cardinality(PageRequests) = 1

\* C15: when page 1 holds the marker of a query without results, the parse
\* of it is ([], 0) whatever thumbnails and pager it holds, the call returns
\* an empty list and no other fetch is issued.
C15_EmptyStateShortCircuits ==
    (page1_response = "ok" /\ site.empty_state) =>
        /\ ListParse(ListingDoc(site, payload)) = <<<<>>, 0>>
        /\ actual_total_pages = 0
        /\ pc = "returned"
        /\ result = <<>>
        /\ urls = <<>>
        /\ Len(requests) = 1
        /\ page_tasks = <<>>
        /\ item_tasks = <<>>

C15_Witness ==
    /\ call.op = "search"
    /\ pc = "returned"
    /\ page1_response = "ok"
    /\ site.empty_state
    /\ site.nlinks >= 1
    /\ site.pager = Some(Digits(3))
    /\ call.max_pages = None
    /\ result = <<>>

\* C16: the params of the page-1 fetch of a call with one criterion are one
\* key and its value: search and the term, date and the date as YYYYMMDD,
\* genre and the genre's number in digits; the params of every later page
\* fetch are the same key and value and the key p.
C16_PayloadOfTheCriterion ==
    (NumCriteria = 1 /\ requests # <<>>) =>
        /\ requests[1].params # None
        /\ call.search = Some("live") =>
              requests[1].params[1] = [search |-> "live"]
        /\ call.date = Some([year |-> 2025, month |-> 1, day |-> 5]) =>
              requests[1].params[1] = [date |-> "20250105"]
        /\ call.genre = Some(107) =>
              requests[1].params[1] = [genre |-> "107"]
        /\ Cardinality(DOMAIN requests[1].params[1]) = 1
        /\ \A k \in PageRequests :
              /\ DOMAIN requests[k].params[1]
                    = DOMAIN requests[1].params[1] \cup {"p"}
              /\ \A key \in DOMAIN requests[1].params[1] :
                    requests[k].params[1][key] = requests[1].params[1][key]

C16_Witness ==
    /\ call.op = "search"
    /\ pc = "returned"
    /\ call.date # None
    /\ NumCriteria = 1
    /\ Cardinality(PageRequests) = 2
    /\ \E k \in PageRequests :
          requests[k].params[1] = [date |-> "20250105", p |-> 2]

\* the exception a failed fetch left in the task, or None
FetchErrorOf(task) == IF task.response = "failed" THEN task.exc ELSE None

\* every failed fetch was raised as a ConnectionError
OneErrorKind ==
    /\ page1_response = "failed" =>
          (error # None /\ error[1].type = "ConnectionError")
    /\ \A i \in DOMAIN page_tasks :
          page_tasks[i].response = "failed" =>
              (/\ FetchErrorOf(page_tasks[i]) # None
               /\ FetchErrorOf(page_tasks[i])[1].type = "ConnectionError")
    /\ \A i \in DOMAIN item_tasks :
          item_tasks[i].response = "failed" =>
              (/\ FetchErrorOf(item_tasks[i]) # None
               /\ FetchErrorOf(item_tasks[i])[1].type = "ConnectionError")

\* the error of a failed item fetch names the item's URL
ItemErrorsNameTheUrl ==
    \A i \in DOMAIN item_tasks :
        item_tasks[i].response = "failed" =>
            FetchErrorOf(item_tasks[i])[1].url = Some(item_tasks[i].key)

\* the error of a failed listing fetch names the scraper's URL
ListingErrorsNameTheUrl ==
    /\ page1_response = "failed" => error[1].url = Some(requests[1].url)
    /\ \A i \in DOMAIN page_tasks :
          page_tasks[i].response = "failed" =>
              FetchErrorOf(page_tasks[i])[1].url = Some(ScraperUrl)

\* C20: every failed fetch, by transport, timeout or status, is raised as a
\* ConnectionError, and the error names the URL that was requested, the
\* scraper's own URL when the fetch was given none.
C20_FetchErrorNamesTheUrl ==
    /\ OneErrorKind
    /\ ItemErrorsNameTheUrl
    /\ ListingErrorsNameTheUrl

\* C17: without a supplied session, once close() has completed the instance
\* holds no open session of its own, whatever is fetched before or after.
C17_NoOpenSessionAfterClose ==
    (closed /\ ~external_session) => internal_session = "None"

\* C18: without a supplied session, the instance makes at most one session
\* over its life, and every request goes through that session.
C18_OneInternalSession ==
    ~external_session =>
        /\ sessions_created <= 1
        /\ \A k \in DOMAIN requests : requests[k].via = 1

\* C19: with a supplied session, that session stays open through every call
\* and every close, the instance makes no session of its own, and every
\* request goes through the supplied session.
C19_SuppliedSessionIsLeftAlone ==
    external_session =>
        /\ session = "open"
        /\ internal_session = "None"
        /\ sessions_created = 0
        /\ \A k \in DOMAIN requests : requests[k].via = 0

C19_Witness ==
    /\ external_session
    /\ closed
    /\ call.op = "scrape"
    /\ pc = "fetched"
    /\ ItemRequests # {}
    /\ PageRequests # {}
    /\ session = "open"

\* the links page 1 gave to the call that is running or has returned
Page1LinksNow ==
    IF pc = "returned" THEN Page1LinksReturned ELSE all_links

\* C21: when search is called twice with the same arguments and the page-1
\* fetch of each call is answered with the document of the site, the second
\* call finds the links and the page count the first call found.
C21_DiscoveryIsIdempotent ==
    (/\ previous # None
     /\ previous[1].page1 = "ok"
     /\ page1_response = "ok"
     /\ pc \in {"gather_pages", "returned"})
    => /\ Page1LinksNow = previous[1].links
       /\ actual_total_pages = previous[1].total
       /\ requests[Len(previous[1].answers) + 2].params
             = requests[1].params

C21_Witness ==
    /\ previous # None
    /\ previous[1].page1 = "ok"
    /\ Len(previous[1].answers) >= 2
    /\ page1_response = "ok"
    /\ pc = "gather_pages"
    /\ sessions_created = 1
    /\ all_links # <<>>
    /\ all_links = previous[1].links
    /\ actual_total_pages = MaxTotal

\* every page fetch of the call was answered with the document of the site
AllAnswersOk(answers) == \A i \in DOMAIN answers : answers[i] = "ok"

\* C30: when search returns normally and every fetch was answered with the
\* site's document, the list is page 1's links and then the links of the
\* pages asked for by number, by ascending number; a second run in which
\* the page fetches are answered in another order returns the same list.
C30_SameListForEveryInterleaving ==
    (/\ call.op = "search"
     /\ pc = "returned"
     /\ page1_response = "ok"
     /\ AllAnswersOk([i \in DOMAIN page_tasks |-> page_tasks[i].response]))
    => /\ result = SiteLinks(1)
                   \o Concat([i \in DOMAIN page_tasks |->
                                 SiteLinks(page_tasks[i].key)])
       /\ \A i, j \in DOMAIN page_tasks :
             i < j => page_tasks[i].key < page_tasks[j].key
       /\ (/\ previous # None
           /\ previous[1].page1 = "ok"
           /\ AllAnswersOk(previous[1].answers))
          => result = previous[1].result

C30_Witness ==
    /\ previous # None
    /\ pc = "returned"
    /\ Len(arrivals) >= 2
    /\ Len(previous[1].arrivals) = Len(arrivals)
    /\ previous[1].arrivals # arrivals
    /\ AllAnswersOk(previous[1].answers)
    /\ AllAnswersOk([i \in DOMAIN page_tasks |-> page_tasks[i].response])
    /\ result = previous[1].result
    /\ Len(result) >= 3

\* C22: the record of every item whose fetch and parse succeeded carries the
\* URL its task was made for, with or without a title on the page, and the
\* records scrape returns carry the URLs of these items in the order of the
\* list.
C22_RecordKeepsItsUrl ==
    /\ \A i \in DOMAIN item_tasks :
          item_tasks[i].response = "ok" =>
              /\ item_tasks[i].ret # None
              /\ item_tasks[i].ret[1].url = item_tasks[i].key
              /\ item_tasks[i].key = urls[i]
    /\ (call.op = "scrape" /\ pc = "returned") =>
          [k \in DOMAIN result |-> result[k].url]
              = Concat([i \in DOMAIN item_tasks |->
                           IF item_tasks[i].response = "ok"
                           THEN <<urls[i]>> ELSE <<>>])

C22_Witness ==
    /\ call.op = "scrape"
    /\ pc = "returned"
    /\ Len(result) >= 3
    /\ \E k \in DOMAIN result : result[k].title = None
    /\ \E k \in DOMAIN result : result[k].title # None
    /\ \A k \in DOMAIN result : result[k].url = urls[k]

\* C23: the price of a ticket is null or a text in which "(tax included)"
\* does not occur, for every text of the price element.
C23_PriceWithoutTaxIncluded ==
    (parse_output # None /\ parse_input.parser = "price") =>
        \/ parse_output[1] = None
        \/ ~Contains(parse_output[1][1], TaxIncluded)

\* C24: the page count the listing parse returns is at least 1 for every
\* document, and is 1 for a document without the link to the last page.
C24_TotalPagesAtLeastOne ==
    (parse_output # None /\ parse_input.parser = "listing") =>
        /\ parse_output[1][2] >= 1
        /\ parse_input.html.pager = None => parse_output[1][2] = 1

\* the requests sent for the url and with the params of request k
Attempts(k) ==
    {l \in DOMAIN requests : /\ requests[l].url = requests[k].url
                             /\ requests[l].params = requests[k].params}

\* C25: a fetch that has failed was attempted at least twice: when the
\* failure of the page-1 fetch or of a task's fetch has been raised, the log
\* holds two or more requests for it.
C25_FailedFetchIsRetried ==
    /\ page1_response = "failed" => Cardinality(Attempts(1)) >= 2
    /\ \A i \in DOMAIN page_tasks :
          page_tasks[i].response = "failed" =>
              \E k \in PageRequests :
                  /\ requests[k].params[1].p = page_tasks[i].key
                  /\ Cardinality(Attempts(k)) >= 2
    /\ \A i \in DOMAIN item_tasks :
          item_tasks[i].response = "failed" =>
              \E k \in ItemRequests :
                  /\ requests[k].url = item_tasks[i].key
                  /\ Cardinality(Attempts(k)) >= 2

\* C26: once the page fan-out has ended, by return or by exception, none of
\* its tasks is still to start, waiting or in its fetch, and likewise for
\* the item fan-out.
C26_GatherIsAFullBarrier ==
    /\ (page_tasks # <<>> /\ pc # "gather_pages") =>
          Finished(page_tasks) = DOMAIN page_tasks
    /\ (item_tasks # <<>> /\ pc # "gather_items") =>
          Finished(item_tasks) = DOMAIN item_tasks

\* task i of the fan-out has been admitted by the limiter: its fetch is
\* issued
Admitted(tasks, i) ==
    i \in DOMAIN tasks /\ tasks[i].st \in {"fetching", "done", "raised"}

\* C27: with concurrency 1 or more, a fair event loop and every fetch
\* answered in the end, every task of the page fan-out and of the item
\* fan-out is admitted in the end and issues its fetch, a task that waits
\* while a slot is free is admitted, and the call ends.
C27_EveryTaskIsAdmitted ==
    /\ \A i \in 1..MaxTotal :
          (i \in DOMAIN page_tasks) ~> Admitted(page_tasks, i)
    /\ \A i \in 1..(MaxTotal * MaxLinks) :
          (i \in DOMAIN item_tasks) ~> Admitted(item_tasks, i)
    /\ (page_semaphore.waiters # <<>> /\ page_semaphore.value > 0)
          ~> (page_semaphore.waiters = <<>> \/ page_semaphore.value = 0)
    /\ (item_semaphore.waiters # <<>> /\ item_semaphore.value > 0)
          ~> (item_semaphore.waiters = <<>> \/ item_semaphore.value = 0)
    /\ (pc \in {"page1", "gather_pages", "gather_items"}) ~> CallEnded

C27_Witness ==
    /\ call.op = "scrape"
    /\ call.concurrency = 1
    /\ pc = "returned"
    /\ Len(page_tasks) >= 2
    /\ Len(item_tasks) >= 3
    /\ \A i \in DOMAIN page_tasks : Admitted(page_tasks, i)
    /\ \A i \in DOMAIN item_tasks : Admitted(item_tasks, i)
    /\ item_semaphore.value = 1

\* the tasks inside the async with block of the limiter
Inside(tasks) == Cardinality(Fetching(tasks))

\* C29: in the page fan-out and in the item fan-out, the free slots of the
\* limiter and the tasks inside it add up to concurrency in every state,
\* also after a task has left it by an exception it did not catch, and all
\* slots are free when every task has finished.
C29_SlotsAddUp ==
    /\ page_tasks # <<>> =>
          /\ page_semaphore.value + Inside(page_tasks) = call.concurrency
          /\ page_semaphore.value >= 0
          /\ AllFinished(page_tasks) => page_semaphore.value = call.concurrency
    /\ item_tasks # <<>> =>
          /\ item_semaphore.value + Inside(item_tasks) = call.concurrency
          /\ item_semaphore.value >= 0
          /\ AllFinished(item_tasks) => item_semaphore.value = call.concurrency

C29_Witness ==
    /\ call.op = "scrape"
    /\ pc = "raised"
    /\ call.concurrency = 2
    /\ AllFinished(item_tasks)
    /\ Cardinality(RaisedTasks(item_tasks)) = 2
    /\ item_semaphore.value = 2
    /\ page_semaphore.value = 2

\* the record the site gives for a URL
RecordOf(url) == ItemParse(ItemDoc(site, url), url)

\* the positions of the URL list whose task produced a record
Produced == {i \in DOMAIN item_tasks : item_tasks[i].ret # None}

\* C31: when the item fan-out has returned, its output is the records of the
\* URLs that produced one, in the order of the URL list: of two positions
\* i < j that both produced a record the record of i comes first, in
\* whatever order the fetches were answered.
C31_RecordsInUrlOrder ==
    (call.op = "scrape" /\ pc = "returned" /\ item_tasks # <<>>) =>
        /\ Len(item_tasks) = Len(urls)
        /\ Produced = {i \in DOMAIN urls : item_tasks[i].response = "ok"}
        /\ result = Concat([i \in DOMAIN urls |->
                               IF i \in Produced THEN <<RecordOf(urls[i])>>
                               ELSE <<>>])
        /\ \A i, j \in Produced :
              i < j => \E m, n \in DOMAIN result :
                          /\ m < n
                          /\ m = Cardinality({k \in Produced : k <= i})
                          /\ n = Cardinality({k \in Produced : k <= j})
                          /\ result[m] = RecordOf(urls[i])
                          /\ result[n] = RecordOf(urls[j])

C31_Witness ==
    /\ call.op = "scrape"
    /\ pc = "returned"
    /\ Len(urls) = 3
    /\ arrivals = <<2, 3, 1>>
    /\ Produced = {1, 3}
    /\ result = <<RecordOf(urls[1]), RecordOf(urls[3])>>
    /\ urls[1] # urls[3]

\* no task of the fan-out has been admitted: each is still to run or waits
NoneAdmitted(tasks) ==
    \A i \in DOMAIN tasks : tasks[i].st \in {"created", "waiting"}

\* C32: concurrency is taken as it is: with concurrency = 0 and a fan-out of
\* one task or more, no task of the fan-out is ever admitted, no fetch of
\* the fan-out is ever issued, and the call is in its gather in every state
\* from then on: it neither returns nor raises.
C32_ZeroConcurrencyNeverEnds ==
    (call.op # "none" /\ call.concurrency = 0) =>
        /\ page_tasks # <<>> =>
              /\ pc = "gather_pages"
              /\ NoneAdmitted(page_tasks)
              /\ PageRequests = {}
              /\ page_semaphore.value = 0
              /\ item_tasks = <<>>
        /\ item_tasks # <<>> =>
              /\ pc = "gather_items"
              /\ NoneAdmitted(item_tasks)
              /\ ItemRequests = {}
              /\ item_semaphore.value = 0
        /\ Len(requests) <= 1

C32_Witness ==
    /\ call.op = "search"
    /\ call.concurrency = 0
    /\ pc = "gather_pages"
    /\ Len(page_tasks) >= 2
    /\ \A i \in DOMAIN page_tasks : page_tasks[i].st = "waiting"
    /\ page_semaphore.waiters = [i \in DOMAIN page_tasks |-> i]
    /\ Len(requests) = 1

\* C33: with max_pages 0 or negative the page-1 fetch is issued all the
\* same, no fetch of a numbered page follows it, and when page 1 is
\* answered with the site's document search returns page 1's links and
\* nothing else.
C33_LowMaxPagesKeepsPage1 ==
    (call.op # "none" /\ call.max_pages # None /\ call.max_pages[1] <= 0) =>
        /\ requests # <<>>
        /\ requests[1].params = Some(payload)
        /\ PageRequests = {}
        /\ page_tasks = <<>>
        /\ page1_response = "ok" =>
              /\ urls = SiteLinks(1)
              /\ call.op = "search" =>
                    /\ pc = "returned"
                    /\ result = SiteLinks(1)
                    /\ Len(requests) = 1

C33_Witness ==
    /\ call.op = "search"
    /\ call.max_pages = Some(0 - 1)
    /\ pc = "returned"
    /\ page1_response = "ok"
    /\ actual_total_pages = MaxTotal
    /\ result = SiteLinks(1)
    /\ result # <<>>
    /\ Len(requests) = 1

\* the step closes the internal session
ClosesASession == internal_session # "None" /\ internal_session' = "None"

\* C34: close() is idempotent: an internal session is closed by the first
\* close() and by no other step, a close() of an instance that is closed
\* changes nothing, and no step clears the closed flag once it is set.
C34_CloseIsIdempotent ==
    [][/\ ClosesASession => (~closed /\ closed' /\ ~external_session)
       /\ (Close /\ closed) => UNCHANGED vars
       /\ closed => closed']_vars

C34_Witness ==
    /\ ~external_session
    /\ closed
    /\ sessions_created = 2
    /\ internal_session = "open"
    /\ pc = "fetched"

\* a step of a task of a fan-out
TaskStep ==
    \/ DoPageTaskStart
    \/ DoPageTaskWake
    \/ DoPageTaskResponse
    \/ DoItemTaskStart
    \/ DoItemTaskWake
    \/ DoItemTaskResponse

\* the tasks whose record the step changes
Written(tasks, after) == {j \in DOMAIN tasks : after[j] # tasks[j]}

\* a task step leaves the fields of the scraper as they are
TaskStepKeepsTheScraper ==
    UNCHANGED <<session, external_session, internal_session, closed,
                sessions_created>>

\* a task step leaves the payload, the merged list and what the call
\* returns or raises as they are, and writes to one task at most
TaskStepKeepsTheCall ==
    /\ UNCHANGED <<call, payload, all_links, actual_total_pages, urls,
                   result, error, pc>>
    /\ Cardinality(Written(page_tasks, page_tasks'))
          + Cardinality(Written(item_tasks, item_tasks')) <= 1

C28_CallPart == [][TaskStep => TaskStepKeepsTheCall]_vars

====
